---- MODULE Spec2Model ----
(***************************************************************************)
(* Model of the limited-memory SR1 trust-region optimizer of               *)
(* src/optimizer/lsr1.py (class LSR1, function _strong_wolfe).             *)
(*                                                                         *)
(* Numbers.  The parameter vector has one component (dim_hess = 1), so a   *)
(* dot product is a product, a norm an absolute value.  Every number is an *)
(* exact rational <<n, d>> with d > 0 in lowest terms.  Vector components  *)
(* (flat_grad, delta_w, s, y, v, trust_radius, tolerance_grad) are counted *)
(* in units of 1e-5; products of two of them and losses (y.s, cond_rest,   *)
(* dHd, loss, ared, pred, tolerance_change) are therefore in units of      *)
(* 1e-10; step lengths and the controller's T, rho, r are plain numbers.   *)
(* None is NoneR for a number and NoneL for a list.                        *)
(***************************************************************************)
EXTENDS Integers, Sequences, FiniteSets, TLC

\* ---------------------------------------------------------------- bounds
MaxCalls == 3      \* step() calls made on one optimizer instance
MaxIter == 2       \* largest configured max_iter
MaxOuter == 3      \* outer iterations started on one optimizer instance, over all calls
MaxMem == 2        \* largest configured memory_size
MaxGrad == 2       \* the oracle returns the gradients 2 * (-MaxGrad..MaxGrad)
MaxLoss == 1       \* losses returned by the oracle lie in 0..MaxLoss
MaxRadCalls == 3   \* update_radius calls in a run of the radius controller
NumCap == 400       \* an outer iteration starts only from numbers n/d with |n|, d <= NumCap

\* ------------------------------------------------------------- rationals
\* <<n, d>> with d > 0 is n/d; <<1, 0>> is +inf, <<-1, 0>> is -inf and
\* <<0, 0>> is NaN, as the floating-point operations of the code produce them.
RECURSIVE GCD(_, _)
GCD(a, b) == IF b = 0 THEN a ELSE GCD(b, a % b)

IAbs(n) == IF n < 0 THEN -n ELSE n

ISgn(n) == IF n < 0 THEN -1 ELSE IF n > 0 THEN 1 ELSE 0

Q(n, d) ==
    IF d = 0 THEN <<ISgn(n), 0>>
    ELSE LET m == IF d < 0 THEN -n ELSE n
             e == IAbs(d)
             g == GCD(IAbs(m), e)
         IN <<m \div g, e \div g>>

Zero == <<0, 1>>
One == <<1, 1>>
Two == <<2, 1>>
Half == <<1, 2>>
NaN == <<0, 0>>
NoneR == <<0, -1>>
NoneL == <<NoneR>>

IsNaN(a) == a = NaN
IsFinite(a) == a[2] > 0

RAdd(a, b) ==
    IF a[2] = 0 /\ b[2] = 0 THEN (IF a = b THEN a ELSE NaN)
    ELSE IF a[2] = 0 THEN a
    ELSE IF b[2] = 0 THEN b
    ELSE LET g == GCD(a[2], b[2])
         IN Q(a[1] * (b[2] \div g) + b[1] * (a[2] \div g),
              (a[2] \div g) * b[2])
RNeg(a) == <<-a[1], a[2]>>
RSub(a, b) == RAdd(a, RNeg(b))
RMul(a, b) ==
    IF a[2] = 0 \/ b[2] = 0 THEN Q(ISgn(a[1]) * ISgn(b[1]), 0)
    ELSE LET g == GCD(IAbs(a[1]), b[2])
             h == GCD(IAbs(b[1]), a[2])
         IN Q((a[1] \div g) * (b[1] \div h), (a[2] \div h) * (b[2] \div g))
RInv(b) == Q(b[2], b[1])
RDiv(a, b) == RMul(a, RInv(b))
RLt(a, b) ==
    IF IsNaN(a) \/ IsNaN(b) THEN FALSE
    ELSE IF a[2] = 0 /\ b[2] = 0 THEN a[1] < b[1]
    ELSE a[1] * b[2] < b[1] * a[2]
RLe(a, b) == ~IsNaN(a) /\ ~IsNaN(b) /\ (a = b \/ RLt(a, b))
RAbs(a) == <<IAbs(a[1]), a[2]>>
\* Python's min(a, b) and max(a, b): the first argument unless the second
\* compares strictly below (above) it
RMin(a, b) == IF RLt(b, a) THEN b ELSE a
RMax(a, b) == IF RLt(a, b) THEN b ELSE a

\* x * k1 * k2 < b for finite x and b and integers k1, k2 > 0, evaluated
\* without forming the product (n * k < m  iff  n <= (m - 1) \div k)
LtTimes(x, k1, k2, b) == x[1] * b[2] <= (((b[1] * x[2]) - 1) \div k2) \div k1

\* ---------------------------------------------------- small dense algebra
\* A matrix is a sequence of rows.  With one parameter, S and Y are 1 x k.
RECURSIVE RSum(_)
RSum(xs) == IF xs = <<>> THEN Zero ELSE RAdd(Head(xs), RSum(Tail(xs)))

DropAt(xs, i) == [k \in 1..(Len(xs) - 1) |-> IF k < i THEN xs[k] ELSE xs[k + 1]]

Minor(M, i, j) == [r \in 1..(Len(M) - 1) |-> DropAt(DropAt(M, i)[r], j)]

RECURSIVE Det(_)
Det(M) ==
    IF Len(M) = 1 THEN M[1][1]
    ELSE RSum([j \in 1..Len(M) |->
                 RMul(IF j % 2 = 1 THEN M[1][j] ELSE RNeg(M[1][j]),
                      Det(Minor(M, 1, j)))])

\* torch.linalg.solve(M, I), by cofactors
M_inverse(M) ==
    IF Len(M) = 1 THEN <<<<RInv(M[1][1])>>>>
    ELSE [i \in 1..Len(M) |-> [j \in 1..Len(M) |->
            RDiv(IF (i + j) % 2 = 0 THEN Det(Minor(M, j, i))
                 ELSE RNeg(Det(Minor(M, j, i))),
                 Det(M))]]

\* ----------------------------------------------------- LSR1.update_SY
\* 1e-10 is one unit of a product of two vector components.
update_SY_NoGuard(s, y, old_s, old_y, cond_rest, memory_size) ==
    LET full == Len(old_s) = memory_size
    IN [old_s |-> Append(IF full THEN Tail(old_s) ELSE old_s, s),
        old_y |-> Append(IF full THEN Tail(old_y) ELSE old_y, y),
        accepted |-> TRUE]

update_SY_NoPop(s, y, old_s, old_y, cond_rest, memory_size) ==
    LET ys == RMul(y, s)
    IN IF RLt(One, RAdd(ys, cond_rest))
       THEN [old_s |-> Append(old_s, s),
             old_y |-> Append(old_y, y),
             accepted |-> TRUE]
       ELSE [old_s |-> old_s, old_y |-> old_y, accepted |-> FALSE]

update_SY(s, y, old_s, old_y, cond_rest, memory_size) ==
    LET ys == RMul(y, s)
    IN IF RLt(One, RAdd(ys, cond_rest))
       THEN LET full == Len(old_s) = memory_size
            IN [old_s |-> Append(IF full THEN Tail(old_s) ELSE old_s, s),
                old_y |-> Append(IF full THEN Tail(old_y) ELSE old_y, y),
                accepted |-> TRUE]
       ELSE [old_s |-> old_s, old_y |-> old_y, accepted |-> FALSE]

\* -------------------------------------------------- LSR1.update_radius
update_radius(r, trust_radius, s, T, rho) ==
    LET rho1 == RSub(RMul(RMul(Half, T), rho), r)
        T1 == RAdd(RMul(Half, T), One)
        rho2 == RDiv(rho1, T1)
        norm_s == RAbs(s)
        tr1 == IF RLt(rho2, Half) THEN RMin(trust_radius, norm_s)
               ELSE trust_radius
        tr2 == IF RLe(Half, rho2) /\ RLe(tr1, norm_s) THEN RMul(Two, tr1)
               ELSE tr1
    IN [trust_radius |-> tr2, rho |-> rho2, T |-> T1]

\* ------------------------------------------------------------------ state
VARIABLES
    cfg,      \* the arguments of LSR1.__init__ (param_groups[0] and its count)
    pc,       \* where the optimizer is: "new", "ctor_error", "idle", inside step()
    state,    \* self.state[self._params[0]], the persisted fields
    loc,      \* the local variables of the running step() call
    params,   \* the parameter point, named by the number of committed moves
    oracle,   \* closure at the current point: evaluated there?, loss, gradient
    calls,    \* step() calls started
    ret,      \* how the last step() call ended and what it returned
    hist,     \* the offers accepted since the memory was last emptied, oldest first
    why,      \* why the outer loop of the last call was left
    touched,  \* the running call has evaluated the oracle, moved or stored something
    outer,    \* outer iterations started so far
    ls,       \* the local variables of _strong_wolfe
    rc,       \* a run of the radius controller
    fn        \* a call of one of the trust-region solvers with its result

vars == <<cfg, pc, state, loc, params, oracle, calls, ret, hist, why, touched,
          outer, ls, rc, fn>>

Absent == 0 - 1

Losses == {<<n, 1>> : n \in 0..MaxLoss}
\* the even gradients, and 21/5: a step of -2 from the gradient 4 to the
\* gradient 21/5 has the curvature -1/10, which makes M singular
Grads == {<<2 * n, 1>> : n \in (0 - MaxGrad)..MaxGrad} \cup {<<21, 5>>}

Solvers == {"OBS", "Cauchy_Point_Calculation", "Steihaug_cg"}

ValidConfigs ==
    [lr : {One},
     max_iter : 1..MaxIter,
     tolerance_grad : {One},
     tolerance_change : {One},
     tr_radius : {Two},
     memory_size : 1..MaxMem,
     mu : {Half},
     nu : {Half},
     alpha_S : {Zero},
     line_search_fn : {"strong_wolfe", "None"},
     trust_solver : Solvers,
     n_groups : {1}]

\* the valid configurations, some without a share of the solver's direction
\* in the blend, and some with one of the three faults
Configs ==
    ValidConfigs
    \cup {[c EXCEPT !.nu = One] :
             c \in {x \in ValidConfigs : x.trust_solver = "OBS"}}
    \cup {[c EXCEPT !.n_groups = 2] : c \in ValidConfigs}
    \cup {[c EXCEPT !.line_search_fn = "backtracking"] :
             c \in {x \in ValidConfigs : x.line_search_fn = "strong_wolfe"}}
    \cup {[c EXCEPT !.trust_solver = "Dogleg"] :
             c \in {x \in ValidConfigs : x.trust_solver = "OBS"}}

NoState ==
    [restart |-> Absent, saved |-> FALSE, d |-> NoneR, alpha |-> NoneR,
     old_s |-> NoneL, old_y |-> NoneL, prev_flat_grad |-> NoneR,
     trust_radius |-> NoneR, v |-> NoneR, s |-> NoneR, y |-> NoneR,
     T |-> NoneR, rho |-> NoneR]

NoLoc ==
    [orig_loss |-> NoneR, loss |-> NoneR, flat_grad |-> NoneR,
     delta_w |-> NoneR, v |-> NoneR, alpha |-> NoneR,
     old_s |-> NoneL, old_y |-> NoneL, prev_flat_grad |-> NoneR,
     trust_radius |-> NoneR, s |-> NoneR, y |-> NoneR, T |-> NoneR,
     rho |-> NoneR, n_iter |-> 0, gamma |-> NoneR, lamb |-> NoneR,
     built |-> FALSE, dHd |-> NoneR, gtd |-> NoneR, cond_rest |-> NoneR,
     prev_loss |-> NoneR, was_restart |-> FALSE]

NoOracle == [ev |-> FALSE, f |-> NoneR, g |-> NoneR]
NoRet == [kind |-> "none", value |-> NoneR, last |-> NoneR]
NoLs == [pc |-> "off"]
NoRc == [mode |-> "off"]
NoFn == [mode |-> "off"]

Init ==
    /\ cfg \in Configs
    /\ pc = "new"
    /\ state = NoState
    /\ loc = NoLoc
    /\ params = 0
    /\ oracle = NoOracle
    /\ calls = 0
    /\ ret = NoRet
    /\ hist = <<>>
    /\ why = "none"
    /\ touched = FALSE
    /\ outer = 0
    /\ ls = NoLs
    /\ rc = NoRc
    /\ fn = NoFn

\* ------------------------------------------------------- LSR1.__init__
Construct ==
    /\ pc = "new"
    /\ pc' = IF cfg.n_groups # 1 THEN "ctor_error" ELSE "idle"
    /\ UNCHANGED <<cfg, state, loc, params, oracle, calls, ret, hist, why,
                   touched, outer, ls, rc, fn>>

\* ------------------------------------------------------------- closure
\* The oracle is a function of the point: a point that was evaluated gives
\* the same loss and gradient again, a new point gives any of them.
ClosureResults ==
    IF oracle.ev THEN {[ev |-> TRUE, f |-> oracle.f, g |-> oracle.g]}
    ELSE [ev : {TRUE}, f : Losses, g : Grads]

\* flat_grad.abs().max() <= tolerance_grad
OptCond(flat_grad) == RLe(RAbs(flat_grad), cfg.tolerance_grad)

\* ------------------------------------------- LSR1.step, lines 701-759
SetDefaultRestart(st) == IF st.restart = Absent THEN [st EXCEPT !.restart = 1] ELSE st

StepReturnAtEntry_Saves ==
    /\ pc = "idle"
    /\ calls < MaxCalls
    /\ \E o \in ClosureResults :
        /\ OptCond(o.g)
        /\ oracle' = o
        /\ ret' = [kind |-> "returned", value |-> o.f, last |-> o.f]
    /\ state' = [SetDefaultRestart(state) EXCEPT
                   !.saved = TRUE, !.trust_radius = cfg.tr_radius]
    /\ touched' = TRUE
    /\ calls' = calls + 1
    /\ why' = "converged_at_entry"
    /\ UNCHANGED <<cfg, pc, loc, params, hist, outer, ls, rc, fn>>

StepReturnAtEntry ==
    /\ pc = "idle"
    /\ calls < MaxCalls
    /\ \E o \in ClosureResults :
        /\ OptCond(o.g)
        /\ oracle' = o
        /\ ret' = [kind |-> "returned", value |-> o.f, last |-> o.f]
    /\ state' = SetDefaultRestart(state)
    /\ touched' = TRUE
    /\ calls' = calls + 1
    /\ why' = "converged_at_entry"
    /\ UNCHANGED <<cfg, pc, loc, params, hist, outer, ls, rc, fn>>

StepEnterLoop ==
    /\ pc = "idle"
    /\ calls < MaxCalls
    /\ \E o \in ClosureResults :
        /\ ~OptCond(o.g)
        /\ oracle' = o
        /\ loc' = [NoLoc EXCEPT
                     !.orig_loss = o.f,
                     !.loss = o.f,
                     !.flat_grad = o.g,
                     !.delta_w = state.d,
                     !.v = state.v,
                     !.alpha = state.alpha,
                     !.old_s = state.old_s,
                     !.old_y = state.old_y,
                     !.prev_flat_grad = state.prev_flat_grad,
                     !.trust_radius = IF state.trust_radius = NoneR
                                      THEN cfg.tr_radius
                                      ELSE state.trust_radius,
                     !.s = state.s,
                     !.y = state.y,
                     !.T = state.T,
                     !.rho = state.rho]
    /\ state' = SetDefaultRestart(state)
    /\ touched' = TRUE
    /\ calls' = calls + 1
    /\ pc' = "head"
    /\ ret' = NoRet
    /\ UNCHANGED <<cfg, params, hist, why, outer, ls, rc, fn>>

\* ------------------------------------------- LSR1.step, lines 761-762
\* the numbers a part of an outer iteration starts from are within the
\* model's range
Small(x) == IAbs(x[1]) <= NumCap /\ IAbs(x[2]) <= NumCap

InRange ==
    /\ \A x \in {loc.delta_w, loc.v, loc.s, loc.y, loc.trust_radius,
                  loc.gamma, loc.lamb, loc.dHd, loc.cond_rest, loc.alpha} :
          Small(x)
    /\ Small(loc.T)
    /\ IAbs(loc.rho[1]) <= NumCap * NumCap /\ IAbs(loc.rho[2]) <= NumCap * NumCap
    /\ \A i \in 1..Len(loc.old_s) : Small(loc.old_s[i]) /\ Small(loc.old_y[i])

LoopHead ==
    /\ pc = "head"
    /\ InRange
    /\ IF loc.n_iter < cfg.max_iter
       THEN /\ outer < MaxOuter
            /\ outer' = outer + 1
            /\ loc' = [loc EXCEPT !.n_iter = @ + 1]
            /\ pc' = "dir"
            /\ why' = why
       ELSE /\ outer' = outer
            /\ loc' = loc
            /\ pc' = "save"
            /\ why' = "max_iter"
    /\ UNCHANGED <<cfg, state, params, oracle, calls, ret, hist, touched, ls, rc, fn>>

\* ------------------------------------------- LSR1.step, lines 766-780
RestartIter_KeepsMemory ==
    /\ pc = "dir"
    /\ state.restart = 1
    /\ state' = [state EXCEPT !.restart = 0]
    /\ loc' = [loc EXCEPT
                 !.delta_w = RNeg(loc.flat_grad),
                 !.old_s = IF loc.old_s = NoneL THEN <<>> ELSE loc.old_s,
                 !.old_y = IF loc.old_y = NoneL THEN <<>> ELSE loc.old_y,
                 !.built = FALSE,
                 !.lamb = One,
                 !.gamma = One,
                 !.v = Zero,
                 !.s = Zero,
                 !.y = Zero,
                 !.T = Zero,
                 !.rho = Zero,
                 !.was_restart = TRUE]
    /\ hist' = hist
    /\ pc' = "blend"
    /\ UNCHANGED <<cfg, params, oracle, calls, ret, why, touched, outer, ls, rc, fn>>

RestartIter ==
    /\ pc = "dir"
    /\ state.restart = 1
    /\ state' = [state EXCEPT !.restart = 0]
    /\ loc' = [loc EXCEPT
                 !.delta_w = RNeg(loc.flat_grad),
                 !.old_s = <<>>,
                 !.old_y = <<>>,
                 !.built = FALSE,
                 !.lamb = One,
                 !.gamma = One,
                 !.v = Zero,
                 !.s = Zero,
                 !.y = Zero,
                 !.T = Zero,
                 !.rho = Zero,
                 !.was_restart = TRUE]
    /\ hist' = <<>>
    /\ pc' = "blend"
    /\ UNCHANGED <<cfg, params, oracle, calls, ret, why, touched, outer, ls, rc, fn>>

\* -------------------------------------------- LSR1.step, lines 789-791
StabilizedBB(old_s, old_y) ==
    LET sk == old_s[Len(old_s)]
        yk == old_y[Len(old_y)]
        g_1 == RDiv(RMul(sk, yk), RMul(yk, yk))
        g_2 == RDiv(RMul(sk, sk), RMul(sk, yk))
    IN RMax(<<1, 10>>, RMax(g_1, g_2))

\* ---------------------------------------------------- LSR1.calculate_M
calculate_M(S, Y, gamma) ==
    LET k == Len(S)
        SY(i, j) == RMul(S[i], Y[j])
        SS(i, j) == RMul(gamma, RMul(S[i], S[j]))
    IN [M |-> [i \in 1..k |-> [j \in 1..k |->
                 RAdd(IF i > j THEN SY(i, j)
                      ELSE IF i < j THEN SY(j, i)
                      ELSE SY(i, i),
                      SS(i, j))]],
        Psi |-> [i \in 1..k |-> RSub(Y[i], RMul(gamma, S[i]))]]

\* min(abs(eig(M))) < 1e-16.  The entries of M are rationals with small
\* numerators and denominators, in units of 1e-10: a non-zero determinant
\* keeps every eigenvalue many orders of magnitude above 1e-6 units.
Singular(M) == Det(M) = Zero

\* -------------------------------------------------- LSR1.calculate_hess
\* Psi is 1 x k: Q is 1 x 1 (+1 or -1), R = Q * Psi, so R M^-1 R^T is the
\* number Psi M^-1 Psi^T, its own eigenvalue, and P = Q * U has P * P = 1.
calculate_hess(Psi, Minv) ==
    RSum([i \in 1..Len(Psi) |->
            RSum([j \in 1..Len(Psi) |->
                    RMul(Psi[i], RMul(Minv[i][j], Psi[j]))])])

\* ------------------------------------------- LSR1.trust_solver_cauchy
\* hess_1 @ hess_2 = lamb * P * P^T = lamb
trust_solver_cauchy_NoCheck(flat_grad, lamb, trust_radius) ==
    LET g_norm == RAbs(flat_grad)
        cauchy_cond == RMul(lamb, RMul(flat_grad, flat_grad))
        tau == RMin(RDiv(RMul(g_norm, RMul(g_norm, g_norm)),
                         RMul(cauchy_cond, trust_radius)), One)
    IN RMul(RDiv(RMul(RNeg(tau), trust_radius), g_norm), flat_grad)

trust_solver_cauchy(flat_grad, lamb, trust_radius) ==
    LET g_norm == RAbs(flat_grad)
        cauchy_cond == RMul(lamb, RMul(flat_grad, flat_grad))
        tau == IF RLe(cauchy_cond, Zero) THEN One
               ELSE RMin(RDiv(RMul(g_norm, RMul(g_norm, g_norm)),
                              RMul(cauchy_cond, trust_radius)), One)
    IN RMul(RDiv(RMul(RNeg(tau), trust_radius), g_norm), flat_grad)

\* ----------------------------------------- LSR1.trust_solver_steihaug
\* With one parameter the first CG iteration has d = -g, dHd = lamb * g^2,
\* alpha = 1 / lamb and z = -g / lamb; the boundary root is
\* sqrt(4 * dd * trust_radius^2) / (2 * dd) = trust_radius / |d|, and the
\* residual r + alpha * lamb * d is 0 < delta, so the loop ends there.
trust_solver_steihaug(flat_grad, lamb, trust_radius) ==
    LET g_norm == RAbs(flat_grad)
        d == RNeg(flat_grad)
        fHf == RMul(lamb, RMul(flat_grad, flat_grad))
        dHd == RMul(lamb, RMul(d, d))
        alpha == RDiv(RMul(flat_grad, flat_grad), dHd)
        z == RMul(alpha, d)
        tau == RDiv(trust_radius, RAbs(d))
    IN IF RLe(fHf, Zero)
       THEN RMul(RDiv(RNeg(trust_radius), g_norm), flat_grad)
       ELSE IF RLe(trust_radius, RAbs(z)) THEN RMul(tau, d)
       ELSE z

\* --------------------------------------------- LSR1.trust_solver_OBS
\* With one parameter P is 1 x 1, so a = (P * g, 0) and
\* lam_all = (lamb + gamma, gamma), and phi(sigma) is
\* |lamb + gamma + sigma| / |g| - 1 / trust_radius, or -1 / trust_radius
\* where lamb + gamma + sigma vanishes.  equation_p1 with tau is the
\* Sherman-Morrison-Woodbury form of -(tau + Psi M^-1 Psi^T)^-1 g, which is
\* -g / (tau + lamb).  With sigma_star = 0 that is the Newton step; otherwise
\* phi(-lam_min) < 0, and the Newton iteration on phi, which is linear in
\* sigma, ends at sigma_star = |g| / trust_radius - (lamb + gamma), where the
\* step is -trust_radius * g / |g|.
trust_solver_OBS(flat_grad, lamb, gamma, trust_radius) ==
    LET lam0 == RAdd(lamb, gamma)
        lam_min == RMin(lam0, gamma)
        phi0 == RSub(RDiv(RAbs(lam0), RAbs(flat_grad)), RInv(trust_radius))
        sigma_star == RSub(RDiv(RAbs(flat_grad), trust_radius), lam0)
        tau_star == RAdd(sigma_star, gamma)
    IN IF lam0 # Zero /\ RLe(Zero, phi0) /\ RLt(Zero, lam_min)
       THEN RNeg(RDiv(flat_grad, RAdd(gamma, lamb)))
       ELSE RNeg(RDiv(flat_grad, RAdd(tau_star, lamb)))

\* ------------------------------------------- LSR1.step, lines 781-821
\* torch.stack(None) and torch.stack([]) raise
BuildRaises ==
    /\ pc = "dir"
    /\ state.restart # 1
    /\ loc.old_s = NoneL \/ loc.old_s = <<>>
    /\ pc' = "idle"
    /\ ret' = [kind |-> "raised", value |-> NoneR, last |-> NoneR]
    /\ loc' = NoLoc
    /\ why' = "error"
    /\ UNCHANGED <<cfg, state, params, oracle, calls, hist, touched, outer, ls, rc, fn>>

BuildSingular ==
    /\ pc = "dir"
    /\ state.restart # 1
    /\ loc.old_s # NoneL /\ loc.old_s # <<>>
    /\ LET gamma == StabilizedBB(loc.old_s, loc.old_y)
           MP == calculate_M(loc.old_s, loc.old_y, gamma)
       IN /\ Singular(MP.M)
          /\ loc' = [loc EXCEPT !.gamma = gamma]
    /\ state' = [state EXCEPT !.restart = 1]
    /\ pc' = "save"
    /\ why' = "singular"
    /\ UNCHANGED <<cfg, params, oracle, calls, ret, hist, touched, outer, ls, rc, fn>>

\* The direction of lines 814-821; an unrecognized trust_solver leaves
\* delta_w as it was.
SolverResults(gamma, lamb) ==
    IF cfg.trust_solver = "Cauchy_Point_Calculation"
    THEN {trust_solver_cauchy(loc.flat_grad, lamb, loc.trust_radius)}
    ELSE IF cfg.trust_solver = "Steihaug_cg"
    THEN {trust_solver_steihaug(loc.flat_grad, lamb, loc.trust_radius)}
    ELSE IF cfg.trust_solver = "OBS"
    THEN {trust_solver_OBS(loc.flat_grad, lamb, gamma, loc.trust_radius)}
    ELSE {loc.delta_w}

BuildAndSolve ==
    /\ pc = "dir"
    /\ state.restart # 1
    /\ loc.old_s # NoneL /\ loc.old_s # <<>>
    /\ LET gamma == StabilizedBB(loc.old_s, loc.old_y)
           MP == calculate_M(loc.old_s, loc.old_y, gamma)
           lamb == calculate_hess(MP.Psi, M_inverse(MP.M))
       IN /\ ~Singular(MP.M)
          /\ Small(gamma) /\ Small(lamb)
          /\ \E p \in SolverResults(gamma, lamb) :
                loc' = [loc EXCEPT !.gamma = gamma, !.lamb = lamb,
                                   !.built = TRUE, !.delta_w = p,
                                   !.was_restart = FALSE]
    /\ pc' = "blend"
    /\ UNCHANGED <<cfg, state, params, oracle, calls, ret, hist, why, touched,
                   outer, ls, rc, fn>>

\* ------------------------------------------- LSR1.step, lines 824-837
\* min(1, trust_radius / norm(x)) * x
Clip(x, trust_radius) == RMul(RMin(One, RDiv(trust_radius, RAbs(x))), x)

Momentum(v, s, flat_grad) ==
    Clip(RAdd(RSub(RMul(cfg.mu, v),
                   RMul(RMul(cfg.nu, cfg.alpha_S), flat_grad)),
              RMul(RSub(One, cfg.nu), s)),
         loc.trust_radius)

Blended_NoClip(delta_w, v) ==
    RAdd(RMul(RSub(One, cfg.nu), delta_w), RMul(cfg.mu, v))

Blended(delta_w, v) ==
    Clip(RAdd(RMul(RSub(One, cfg.nu), delta_w), RMul(cfg.mu, v)),
         loc.trust_radius)

\* min(dg, dg / d_norm) < g_norm * 5e-10, with dg in units of 1e-10 and
\* dg / d_norm and g_norm in units of 1e-5
TooOrthogonal(delta_w, flat_grad) ==
    LET dg == RAbs(RMul(delta_w, flat_grad))
        d_norm == RAbs(delta_w)
        g_norm == RAbs(flat_grad)
        q == RDiv(dg, d_norm)
    IN IF IsFinite(q) /\ LtTimes(q, 100000, 1, dg)
       THEN LtTimes(q, 20000, 100000, g_norm)
       ELSE LtTimes(dg, 20000, 1, g_norm)

BlendOrthogonal_NoBreak ==
    /\ pc = "blend"
    /\ InRange
    /\ LET v == Momentum(loc.v, loc.s, loc.flat_grad)
           delta_w == Blended(loc.delta_w, v)
       IN /\ TooOrthogonal(delta_w, loc.flat_grad)
          /\ loc' = [loc EXCEPT !.v = v, !.delta_w = delta_w]
    /\ state' = [state EXCEPT !.restart = 1]
    /\ pc' = "head"
    /\ why' = "orthogonal"
    /\ UNCHANGED <<cfg, params, oracle, calls, ret, hist, touched, outer, ls, rc, fn>>

BlendOrthogonal ==
    /\ pc = "blend"
    /\ InRange
    /\ LET v == Momentum(loc.v, loc.s, loc.flat_grad)
           delta_w == Blended(loc.delta_w, v)
       IN /\ TooOrthogonal(delta_w, loc.flat_grad)
          /\ loc' = [loc EXCEPT !.v = v, !.delta_w = delta_w]
    /\ state' = [state EXCEPT !.restart = 1]
    /\ pc' = "save"
    /\ why' = "orthogonal"
    /\ UNCHANGED <<cfg, params, oracle, calls, ret, hist, touched, outer, ls, rc, fn>>

\* ------------------------------------------- LSR1.step, lines 839-883
\* dH @ Hd = lamb * delta_w^2 when a model was built (L is a matrix)
Curvature(x) ==
    IF loc.built
    THEN RAdd(RMul(loc.lamb, RMul(x, x)), RMul(loc.gamma, RMul(x, x)))
    ELSE RMul(loc.gamma, RMul(x, x))

\* min(1., 1. / flat_grad.abs().sum()) * lr on a restart, else lr; the
\* gradient is in units of 1e-5
InitialStep(flat_grad) ==
    IF state.restart = 1
    THEN RMul(RMin(One, RDiv(<<100000, 1>>, RAbs(flat_grad))), cfg.lr)
    ELSE cfg.lr

BlendAndPrepare ==
    /\ pc = "blend"
    /\ InRange
    /\ LET v == Momentum(loc.v, loc.s, loc.flat_grad)
           d0 == Blended(loc.delta_w, v)
           gtd == RMul(loc.flat_grad, d0)
           delta_w == IF RLt(Zero, gtd) THEN RNeg(d0) ELSE d0
       IN /\ ~TooOrthogonal(d0, loc.flat_grad)
          /\ loc' = [loc EXCEPT
                       !.v = v,
                       !.dHd = Curvature(d0),
                       !.gtd = gtd,
                       !.delta_w = delta_w,
                       !.s = delta_w,
                       !.cond_rest = Curvature(delta_w),
                       !.alpha = InitialStep(loc.flat_grad),
                       !.prev_flat_grad = loc.flat_grad,
                       !.prev_loss = loc.loss]
    /\ pc' = "advance"
    /\ UNCHANGED <<cfg, state, params, oracle, calls, ret, hist, why, touched,
                   outer, ls, rc, fn>>

\* ------------------------------------------- LSR1.step, lines 890-893
UnsupportedLineSearch ==
    /\ pc = "advance"
    /\ cfg.line_search_fn # "None"
    /\ cfg.line_search_fn # "strong_wolfe"
    /\ pc' = "idle"
    /\ ret' = [kind |-> "raised", value |-> NoneR, last |-> NoneR]
    /\ loc' = NoLoc
    /\ why' = "error"
    /\ UNCHANGED <<cfg, state, params, oracle, calls, hist, touched, outer, ls, rc, fn>>

\* ------------------------------------------- LSR1.step, lines 895-902
\* What _strong_wolfe may hand back to step(): the step length 0 with the
\* loss and gradient of the base point, or a positive step length with the
\* loss and gradient the oracle gave at that trial point.
\* Where the result of the call is given (fn.mode = "result"), it is that
\* one.
StepLengths == {One, <<2000000, 1>>}

LineSearchResults ==
    IF fn.mode = "result" THEN {fn.res}
    ELSE {[loss_t |-> loc.loss, flat_grad_t |-> loc.flat_grad, alpha_t |-> Zero]}
         \cup [loss_t : Losses, flat_grad_t : Grads, alpha_t : StepLengths]

\* ------------------------------------------- LSR1.step, lines 904-916
\* 1e-12 > alpha_t or alpha_t > 1000000
StepLengthOutOfRange(alpha_t) ==
    \/ ~IsFinite(alpha_t)
    \/ LtTimes(alpha_t, 1000000, 1000000, One)
    \/ RLt(<<1000000, 1>>, alpha_t)

\* check_grad < 1e-12 or check_grad > 1000000, the gradient in units of 1e-5
GradOutOfRange(flat_grad_t) ==
    LET check_grad == RAbs(flat_grad_t)
    IN \/ LtTimes(check_grad, 10000000, 1, One)
       \/ LtTimes(One, 100000, 1000000, check_grad)

\* loss_t > 1000000 or math.isnan(loss_t), the loss in units of 1e-10
LossOutOfRange(loss_t) ==
    \/ IsNaN(loss_t)
    \/ loss_t = <<1, 0>>
    \/ IsFinite(loss_t) /\ LtTimes(One, 100000000, 100000000, loss_t)

LineSearchReject ==
    /\ pc = "advance"
    /\ cfg.line_search_fn = "strong_wolfe"
    /\ \E res \in LineSearchResults :
        \/ StepLengthOutOfRange(res.alpha_t)
        \/ GradOutOfRange(res.flat_grad_t)
        \/ LossOutOfRange(res.loss_t)
    /\ state' = [state EXCEPT !.restart = 1]
    /\ pc' = "save"
    /\ why' = "line_search"
    /\ UNCHANGED <<cfg, loc, params, oracle, calls, ret, hist, touched, outer, ls, rc, fn>>

\* ------------------------------------------- LSR1.step, lines 917-927
LineSearchAccept ==
    /\ pc = "advance"
    /\ cfg.line_search_fn = "strong_wolfe"
    /\ \E res \in LineSearchResults :
        /\ ~StepLengthOutOfRange(res.alpha_t)
        /\ ~GradOutOfRange(res.flat_grad_t)
        /\ ~LossOutOfRange(res.loss_t)
        /\ loc' = [loc EXCEPT !.loss = res.loss_t,
                              !.flat_grad = res.flat_grad_t,
                              !.alpha = res.alpha_t]
        /\ params' = params + 1
        /\ oracle' = [ev |-> TRUE, f |-> res.loss_t, g |-> res.flat_grad_t]
        /\ IF OptCond(res.flat_grad_t)
           THEN /\ state' = [state EXCEPT !.restart = 1]
                /\ pc' = "save"
                /\ why' = "converged"
           ELSE /\ state' = state
                /\ pc' = "tail"
                /\ why' = why
    /\ UNCHANGED <<cfg, calls, ret, hist, touched, outer, ls, rc, fn>>

\* ------------------------------------------- LSR1.step, lines 928-940
FixedStepFinal_Evaluates ==
    /\ pc = "advance"
    /\ cfg.line_search_fn = "None"
    /\ loc.n_iter = cfg.max_iter
    /\ params' = params + 1
    /\ \E f \in Losses, g \in Grads :
        /\ oracle' = [ev |-> TRUE, f |-> f, g |-> g]
        /\ loc' = [loc EXCEPT !.loss = f, !.flat_grad = g]
    /\ pc' = "tail"
    /\ UNCHANGED <<cfg, state, calls, ret, hist, why, touched, outer, ls, rc, fn>>

FixedStepFinal ==
    /\ pc = "advance"
    /\ cfg.line_search_fn = "None"
    /\ loc.n_iter = cfg.max_iter
    /\ params' = params + 1
    /\ oracle' = NoOracle
    /\ pc' = "tail"
    /\ UNCHANGED <<cfg, state, loc, calls, ret, hist, why, touched, outer, ls, rc, fn>>

FixedStepEvaluate ==
    /\ pc = "advance"
    /\ cfg.line_search_fn = "None"
    /\ loc.n_iter # cfg.max_iter
    /\ params' = params + 1
    /\ \E f \in Losses, g \in Grads :
        /\ oracle' = [ev |-> TRUE, f |-> f, g |-> g]
        /\ loc' = [loc EXCEPT !.loss = f, !.flat_grad = g]
        /\ IF OptCond(g)
           THEN /\ state' = [state EXCEPT !.restart = 1]
                /\ pc' = "save"
                /\ why' = "converged"
           ELSE /\ state' = state
                /\ pc' = "tail"
                /\ why' = why
    /\ UNCHANGED <<cfg, calls, ret, hist, touched, outer, ls, rc, fn>>

\* ------------------------------------------- LSR1.step, lines 942-980
Offer ==
    update_SY(RMul(loc.alpha, loc.s), RSub(loc.flat_grad, loc.prev_flat_grad),
              loc.old_s, loc.old_y, RMul(loc.alpha, loc.cond_rest),
              cfg.memory_size)

OfferAndRadius_NoEmptyCheck ==
    /\ pc = "tail"
    /\ InRange
    /\ LET s == RMul(loc.alpha, loc.s)
           y == RSub(loc.flat_grad, loc.prev_flat_grad)
           cond_rest == RMul(loc.alpha, loc.cond_rest)
           off == Offer
           ared == RSub(loc.prev_loss, loc.loss)
           pred == RAdd(RAdd(loc.loss, RMul(loc.flat_grad, loc.delta_w)),
                        RMul(Half, loc.dHd))
           r == RDiv(ared, pred)
           rad == update_radius(r, loc.trust_radius, s, loc.T, loc.rho)
           l1 == [loc EXCEPT !.s = s, !.y = y, !.cond_rest = cond_rest,
                             !.old_s = off.old_s, !.old_y = off.old_y]
       IN /\ hist' = IF off.accepted
                      THEN Append(hist, [s |-> s, y |-> y, c |-> cond_rest])
                      ELSE hist
          /\ IF RLt(RAbs(ared), cfg.tolerance_change)
             THEN /\ loc' = l1
                  /\ state' = [state EXCEPT !.restart = 1]
                  /\ pc' = "save"
                  /\ why' = "no_progress"
             ELSE /\ loc' = [l1 EXCEPT !.trust_radius = rad.trust_radius,
                                       !.rho = rad.rho, !.T = rad.T]
                  /\ state' = state
                  /\ IF loc.n_iter = cfg.max_iter
                     THEN pc' = "save" /\ why' = "max_iter"
                     ELSE pc' = "head" /\ why' = why
    /\ UNCHANGED <<cfg, params, oracle, calls, ret, touched, outer, ls, rc, fn>>

OfferAndRadius ==
    /\ pc = "tail"
    /\ InRange
    /\ LET s == RMul(loc.alpha, loc.s)
           y == RSub(loc.flat_grad, loc.prev_flat_grad)
           cond_rest == RMul(loc.alpha, loc.cond_rest)
           off == Offer
           ared == RSub(loc.prev_loss, loc.loss)
           pred == RAdd(RAdd(loc.loss, RMul(loc.flat_grad, loc.delta_w)),
                        RMul(Half, loc.dHd))
           r == RDiv(ared, pred)
           rad == update_radius(r, loc.trust_radius, s, loc.T, loc.rho)
           l1 == [loc EXCEPT !.s = s, !.y = y, !.cond_rest = cond_rest,
                             !.old_s = off.old_s, !.old_y = off.old_y]
       IN /\ hist' = IF off.accepted
                      THEN Append(hist, [s |-> s, y |-> y, c |-> cond_rest])
                      ELSE hist
          /\ IF Len(off.old_s) = 0
             THEN /\ loc' = l1
                  /\ state' = [state EXCEPT !.restart = 1]
                  /\ pc' = "save"
                  /\ why' = "empty_memory"
             ELSE IF RLt(RAbs(ared), cfg.tolerance_change)
             THEN /\ loc' = l1
                  /\ state' = [state EXCEPT !.restart = 1]
                  /\ pc' = "save"
                  /\ why' = "no_progress"
             ELSE /\ loc' = [l1 EXCEPT !.trust_radius = rad.trust_radius,
                                       !.rho = rad.rho, !.T = rad.T]
                  /\ state' = state
                  /\ IF loc.n_iter = cfg.max_iter
                     THEN pc' = "save" /\ why' = "max_iter"
                     ELSE pc' = "head" /\ why' = why
    /\ UNCHANGED <<cfg, params, oracle, calls, ret, touched, outer, ls, rc, fn>>

\* ------------------------------------------- LSR1.step, lines 982-994
Save ==
    /\ pc = "save"
    /\ state' = [state EXCEPT
                   !.saved = TRUE,
                   !.d = loc.delta_w,
                   !.alpha = loc.alpha,
                   !.old_s = loc.old_s,
                   !.old_y = loc.old_y,
                   !.prev_flat_grad = loc.flat_grad,
                   !.trust_radius = loc.trust_radius,
                   !.v = loc.v,
                   !.s = loc.s,
                   !.y = loc.y,
                   !.T = loc.T,
                   !.rho = loc.rho]
    /\ ret' = [kind |-> "returned", value |-> loc.orig_loss, last |-> loc.loss]
    /\ loc' = NoLoc
    /\ pc' = "idle"
    /\ UNCHANGED <<cfg, params, oracle, calls, hist, why, touched, outer, ls, rc, fn>>

Next ==
    \/ Construct
    \/ StepReturnAtEntry
    \/ StepEnterLoop
    \/ LoopHead
    \/ RestartIter
    \/ BuildRaises
    \/ BuildSingular
    \/ BuildAndSolve
    \/ BlendOrthogonal
    \/ BlendAndPrepare
    \/ UnsupportedLineSearch
    \/ LineSearchReject
    \/ LineSearchAccept
    \/ FixedStepFinal
    \/ FixedStepEvaluate
    \/ OfferAndRadius
    \/ Save

Spec == Init /\ [][Next]_vars

\* ====================================================================
\* Properties
\* ====================================================================
\* the memory lists as the program holds them: the locals of the running
\* call, the persisted lists between calls
InCall == pc \in {"head", "dir", "blend", "advance", "tail", "save"}
MemS == IF InCall THEN loc.old_s ELSE state.old_s
MemY == IF InCall THEN loc.old_y ELSE state.old_y

\* 1e-10 is one unit of a product of two vector components
AboveThreshold(s, y, cond_rest) == RLt(One, RAdd(RMul(y, s), cond_rest))

\* what step() offers to update_SY
OfferedS == RMul(loc.alpha, loc.s)
OfferedY == RSub(loc.flat_grad, loc.prev_flat_grad)
OfferedC == RMul(loc.alpha, loc.cond_rest)

\* C1: a pair is appended only if y.s + cond_rest > 1e-10; an offer with
\* y.s + cond_rest <= 1e-10 leaves both lists unchanged; so every pair held
\* in memory satisfied y.s + cond_rest > 1e-10 when it was accepted.
C1_Accepted ==
    /\ [](MemS # NoneL =>
            /\ Len(MemS) <= Len(hist)
            /\ \A i \in 1..Len(MemS) :
                LET h == hist[Len(hist) - Len(MemS) + i]
                IN /\ MemS[i] = h.s
                   /\ MemY[i] = h.y
                   /\ AboveThreshold(h.s, h.y, h.c))
    /\ [][pc = "tail" =>
            IF AboveThreshold(OfferedS, OfferedY, OfferedC)
            THEN /\ hist' = Append(hist, [s |-> OfferedS, y |-> OfferedY,
                                          c |-> OfferedC])
                 /\ loc'.old_s[Len(loc'.old_s)] = OfferedS
                 /\ loc'.old_y[Len(loc'.old_y)] = OfferedY
            ELSE /\ hist' = hist
                 /\ loc'.old_s = loc.old_s
                 /\ loc'.old_y = loc.old_y]_vars

\* an offer with 0 < y.s + cond_rest <= 1e-10 was rejected while the memory
\* held a pair
C1_Witness ==
    /\ pc = "head"
    /\ loc.n_iter >= 1
    /\ Len(loc.old_s) >= 1
    /\ RLt(Zero, RAdd(RMul(loc.y, loc.s), loc.cond_rest))
    /\ ~AboveThreshold(loc.s, loc.y, loc.cond_rest)

C3_ReturnsLastLoss ==
    (pc = "idle" /\ ret.kind = "returned") => ret.value = ret.last

\* C4: when step() returns, the parameters are at a point at which the
\* oracle was evaluated.
C4_EvaluatedPoint ==
    (pc = "idle" /\ ret.kind = "returned") => oracle.ev

\* a call that finds the gradient within tolerance_grad on entry
ConvergedCall == pc = "idle" /\ calls' # calls /\ OptCond(oracle'.g)

\* C5 as stated: such a call returns the loss evaluated at entry, runs no
\* outer iteration and leaves the parameters and every persisted field as
\* they were.
C5_Idempotent ==
    [][ConvergedCall =>
         /\ ret'.kind = "returned"
         /\ ret'.value = oracle'.f
         /\ outer' = outer
         /\ params' = params
         /\ state' = state]_vars

\* C5 amended: the same, except that the first such call on a fresh
\* optimizer stores the restart flag with its default 1; a repeated call
\* returns the same loss and changes nothing.
C5_IdempotentButDefault ==
    [][/\ ConvergedCall =>
            /\ ret'.kind = "returned"
            /\ ret'.value = oracle'.f
            /\ outer' = outer
            /\ params' = params
            /\ state' = IF state.restart = Absent
                        THEN [state EXCEPT !.restart = 1] ELSE state
       /\ (ConvergedCall /\ why = "converged_at_entry") =>
            /\ ret' = ret
            /\ state' = state
            /\ params' = params]_vars

\* a call has found the gradient within tolerance on entry, and so has the
\* call repeated after it
C5_Witness ==
    /\ pc = "idle"
    /\ why = "converged_at_entry"
    /\ calls >= 2
    /\ ret.kind = "returned"

ForcedRestarts ==
    {"singular", "orthogonal", "line_search", "empty_memory", "no_progress"}

C8_ConfigErrorsFatal ==
    /\ ret.kind = "raised" => ~touched
    /\ cfg.trust_solver \notin Solvers =>
         /\ ~(pc = "idle" /\ ret.kind = "returned")
         /\ ~(pc = "blend" /\ loc.built)

\* ------------------------------------------------ LSR1.update_radius
\* Runs of the radius controller alone: update_radius is applied again and
\* again to its own trust_radius, T and rho, with ratios r that are all
\* favorable (r >= 0.5) or all unfavorable (r < 0.5) and steps s of any
\* length.
RadiusStarts ==
    [mode : {"favorable", "unfavorable"},
     trust_radius : {One, Two},
     T : {Zero, One},
     rho : {<<0 - 1, 1>>, Zero, Half, One},
     n : {0}]

FavorableRatios == {Half, One, Two}
UnfavorableRatios == {<<0 - 1, 1>>, Zero, <<1, 4>>}
StepNorms == {Half, One, Two, <<4, 1>>}

InitRadius ==
    /\ cfg = CHOOSE c \in ValidConfigs : TRUE
    /\ pc = "radius"
    /\ state = NoState
    /\ loc = NoLoc
    /\ params = 0
    /\ oracle = NoOracle
    /\ calls = 0
    /\ ret = NoRet
    /\ hist = <<>>
    /\ why = "none"
    /\ touched = FALSE
    /\ outer = 0
    /\ ls = NoLs
    /\ rc \in RadiusStarts
    /\ fn = NoFn

RadiusCall(ratios) ==
    /\ pc = "radius"
    /\ rc.n < MaxRadCalls
    /\ \E r \in ratios, s \in StepNorms :
        LET rad == update_radius(r, rc.trust_radius, s, rc.T, rc.rho)
        IN rc' = [rc EXCEPT !.trust_radius = rad.trust_radius,
                            !.T = rad.T, !.rho = rad.rho, !.n = @ + 1]
    /\ UNCHANGED <<cfg, pc, state, loc, params, oracle, calls, ret, hist, why,
                   touched, outer, ls, fn>>

FavorableCall == rc.mode = "favorable" /\ RadiusCall(FavorableRatios)

UnfavorableCall == rc.mode = "unfavorable" /\ RadiusCall(UnfavorableRatios)

NextRadius == FavorableCall \/ UnfavorableCall

SpecRadius == InitRadius /\ [][NextRadius]_vars

\* C9: under favorable ratios trust_radius never decreases from one call of
\* update_radius to the next, and under unfavorable ratios it never
\* increases.
C9_Monotone ==
    [][/\ rc.mode = "favorable" => RLe(rc.trust_radius, rc'.trust_radius)
       /\ rc.mode = "unfavorable" => RLe(rc'.trust_radius, rc.trust_radius)]_vars

\* ------------------------------------------------------ _strong_wolfe
\* One outer iteration of step() from the choice of the sign of delta_w to
\* the commit or the rejection of the line search's result, with the line
\* search in its own steps.  The trial step t is not computed: after the
\* first trial it is positive and, in the zoom phase, strictly inside the
\* bracket, which is all the loop's tests use of it besides the products
\* c1 * t * gtd and |bracket[1] - bracket[0]| * d_norm.  A bracket entry
\* keeps the loss, the gradient and the directional derivative of its
\* point and whether the point is t = 0; asc says that bracket[0] lies
\* below bracket[1].
max_ls == 25
c1 == <<1, 10000>>
c2 == <<9, 10>>
MaxLossStep == 1   \* the loss at a trial point is within MaxLossStep grains of the loss it is compared with
MaxZoomDrop == 2   \* the zoom phase finds losses at most MaxZoomDrop grains below those of its first bracket

\* the losses along the line are multiples of c1 * lr * 2, the slack of the
\* first trial step's sufficient-decrease test for the gradients of LsGrads
LossGrain == <<1, 5000>>

LsGrads == {g \in Grads : RLe(RAbs(g), Two)}
LsDirections == {<<0 - 1, 1>>, One}
LossesNear(x) ==
    {RAdd(x, RMul(<<k, 1>>, LossGrain)) : k \in (0 - MaxLossStep)..MaxLossStep}

\* LSR1.step, lines 853-857 and 871-874: gtd is taken before delta_w is negated
LsCall(loss, flat_grad, d0) ==
    LET gtd == RMul(flat_grad, d0)
        delta_w == IF RLt(Zero, gtd) THEN RNeg(d0) ELSE d0
    IN [pc |-> "call", f |-> loss, g |-> flat_grad, d |-> delta_w, gtd |-> gtd,
        t |-> cfg.lr, f_new |-> NoneR, g_new |-> NoneR, f_prev |-> NoneR,
        g_prev |-> NoneR, gtd_prev |-> NoneR, prev_zero |-> TRUE,
        ls_iter |-> 0, ls_func_evals |-> 0, bracket |-> <<>>, asc |-> TRUE,
        low_pos |-> 1, high_pos |-> 2, done |-> FALSE, zoomed |-> FALSE,
        floor |-> NoneR,
        loss_t |-> NoneR, flat_grad_t |-> NoneR, alpha_zero |-> FALSE,
        alpha_ok |-> TRUE]

InitLS ==
    /\ cfg = CHOOSE c \in ValidConfigs : c.line_search_fn = "strong_wolfe"
    /\ pc = "line_search"
    /\ state = NoState
    /\ loc = NoLoc
    /\ params = 0
    /\ oracle = NoOracle
    /\ calls = 0
    /\ ret = NoRet
    /\ hist = <<>>
    /\ why = "none"
    /\ touched = FALSE
    /\ outer = 0
    /\ rc = NoRc
    /\ fn = NoFn
    /\ ls \in {LsCall(Zero, g, d0) : g \in LsGrads \ {Zero}, d0 \in LsDirections}

LsFrame == UNCHANGED <<cfg, pc, state, loc, params, oracle, calls, ret, hist,
                       why, touched, outer, rc, fn>>

\* f_new > f + c1 * t * gtd at the first trial step t
ArmijoFailsAt(f_new) ==
    RLt(RAdd(ls.f, RMul(c1, RMul(ls.t, ls.gtd))), f_new)

\* the values the test can take in the bracketing phase: at the first trial
\* step what it is, at a later and so larger one what some larger t makes it
BracketArmijoFails(f_new) ==
    IF ls.ls_iter = 0 THEN {ArmijoFailsAt(f_new)}
    ELSE IF RLt(ls.gtd, Zero)
    THEN IF ArmijoFailsAt(f_new) THEN {TRUE} ELSE {TRUE, FALSE}
    ELSE IF ls.gtd = Zero THEN {RLt(ls.f, f_new)}
    ELSE IF ArmijoFailsAt(f_new) THEN {TRUE, FALSE} ELSE {FALSE}

\* the values the test can take in the zoom phase, for some t > 0
ZoomArmijoFails(f_new) ==
    IF RLt(ls.gtd, Zero)
    THEN IF RLe(ls.f, f_new) THEN {TRUE} ELSE {TRUE, FALSE}
    ELSE IF ls.gtd = Zero THEN {RLt(ls.f, f_new)}
    ELSE IF RLe(f_new, ls.f) THEN {FALSE} ELSE {TRUE, FALSE}

\* abs(gtd_new) <= -c2 * gtd
Wolfe(gtd_new) == RLe(RAbs(gtd_new), RMul(RNeg(c2), ls.gtd))

Entry(f, g, gtd, zero) == [f |-> f, g |-> g, gtd |-> gtd, zero |-> zero]

\* lines 117-119 on a bracket
WithLowHigh(l, bracket) ==
    LET low_first == RLe(bracket[1].f, bracket[Len(bracket)].f)
    IN [l EXCEPT !.bracket = bracket, !.pc = "zoom",
                 !.low_pos = IF low_first THEN 1 ELSE 2,
                 !.high_pos = IF low_first THEN 2 ELSE 1]

\* the bracketing phase is over: its f_new, g_new and the previous point are
\* not read again
ToZoom(l, bracket) ==
    [WithLowHigh(l, bracket) EXCEPT
        !.f_new = NoneR, !.g_new = NoneR, !.f_prev = NoneR, !.g_prev = NoneR,
        !.gtd_prev = NoneR, !.prev_zero = FALSE,
        !.floor = RSub(RMin(bracket[1].f, bracket[Len(bracket)].f),
                       RMul(<<MaxZoomDrop, 1>>, LossGrain))]

\* lines 51-61
LsEnter ==
    /\ ls.pc = "call"
    /\ \E f_new \in LossesNear(ls.f), g_new \in LsGrads :
        ls' = [ls EXCEPT !.pc = "bracket", !.f_new = f_new, !.g_new = g_new,
                         !.ls_func_evals = 1, !.f_prev = ls.f,
                         !.g_prev = ls.g, !.gtd_prev = ls.gtd,
                         !.prev_zero = TRUE, !.ls_iter = 0]
    /\ LsFrame

PrevAndNew ==
    <<Entry(ls.f_prev, ls.g_prev, ls.gtd_prev, ls.prev_zero),
      Entry(ls.f_new, ls.g_new, RMul(ls.g_new, ls.d), FALSE)>>

FirstTest(af) == af \/ (ls.ls_iter > 1 /\ RLe(ls.f_prev, ls.f_new))

\* lines 62-69
BracketArmijo ==
    /\ ls.pc = "bracket"
    /\ ls.ls_iter < max_ls
    /\ \E af \in BracketArmijoFails(ls.f_new) : FirstTest(af)
    /\ ls' = ToZoom(ls, PrevAndNew)
    /\ LsFrame

\* lines 71-76
BracketWolfe ==
    /\ ls.pc = "bracket"
    /\ ls.ls_iter < max_ls
    /\ \E af \in BracketArmijoFails(ls.f_new) : ~FirstTest(af)
    /\ Wolfe(RMul(ls.g_new, ls.d))
    /\ ls' = ToZoom([ls EXCEPT !.done = TRUE],
                    <<Entry(ls.f_new, ls.g_new, RMul(ls.g_new, ls.d), FALSE)>>)
    /\ LsFrame

\* lines 78-83
BracketRising ==
    /\ ls.pc = "bracket"
    /\ ls.ls_iter < max_ls
    /\ \E af \in BracketArmijoFails(ls.f_new) : ~FirstTest(af)
    /\ ~Wolfe(RMul(ls.g_new, ls.d))
    /\ RLe(Zero, RMul(ls.g_new, ls.d))
    /\ ls' = ToZoom(ls, PrevAndNew)
    /\ LsFrame

\* lines 85-106: the next trial step lies in [t + 0.01 * (t - t_prev), 10 * t]
BracketExtend ==
    /\ ls.pc = "bracket"
    /\ ls.ls_iter < max_ls
    /\ \E af \in BracketArmijoFails(ls.f_new) : ~FirstTest(af)
    /\ ~Wolfe(RMul(ls.g_new, ls.d))
    /\ RLt(RMul(ls.g_new, ls.d), Zero)
    /\ \E f_new \in LossesNear(ls.f_new), g_new \in LsGrads :
        ls' = [ls EXCEPT !.f_prev = ls.f_new, !.g_prev = ls.g_new,
                         !.gtd_prev = RMul(ls.g_new, ls.d),
                         !.prev_zero = FALSE,
                         !.f_new = f_new, !.g_new = g_new,
                         !.ls_func_evals = @ + 1, !.ls_iter = @ + 1]
    /\ LsFrame

\* lines 62 and 108-119
BracketExhausted ==
    /\ ls.pc = "bracket"
    /\ ls.ls_iter = max_ls
    /\ ls' = ToZoom(ls, <<Entry(ls.f, ls.g, NoneR, TRUE),
                          Entry(ls.f_new, ls.g_new, NoneR, FALSE)>>)
    /\ LsFrame

\* lines 181-185, and what step() can find of alpha_t in lines 907-909: a
\* step length that left [1e-12, 1000000] took six extensions by at most
\* the factor 10 or a zoom step.  The bracket ends with the call.
Returned(l) ==
    {[l EXCEPT !.pc = "back",
               !.loss_t = l.bracket[l.low_pos].f,
               !.flat_grad_t = l.bracket[l.low_pos].g,
               !.alpha_zero = l.bracket[l.low_pos].zero,
               !.alpha_ok = ok,
               !.bracket = <<>>, !.asc = TRUE, !.low_pos = 1, !.high_pos = 2,
               !.done = FALSE, !.zoomed = FALSE, !.floor = NoneR] :
        ok \in IF l.zoomed \/ l.ls_iter >= 6 THEN {TRUE, FALSE} ELSE {TRUE}}

\* lines 120-123: abs(bracket[1] - bracket[0]) * d_norm < tolerance_change
\* needs a bracket that a zoom step has narrowed
ZoomNarrow ==
    /\ ls.pc = "zoom"
    /\ ~ls.done
    /\ ls.ls_iter < max_ls
    /\ ls.zoomed
    /\ ls' \in Returned(ls)
    /\ LsFrame

\* lines 120-179
ZoomStep(f_new, g_new, af) ==
    LET gtd_new == RMul(g_new, ls.d)
        new == Entry(f_new, g_new, gtd_new, FALSE)
        low == ls.bracket[ls.low_pos]
        l1 == [ls EXCEPT !.ls_func_evals = @ + 1, !.ls_iter = @ + 1,
                         !.zoomed = TRUE]
        high_above == (ls.high_pos = 2) = ls.asc
        crosses == \/ gtd_new = Zero
                   \/ RLt(Zero, gtd_new) = high_above
    IN IF af \/ RLe(low.f, f_new)
       THEN WithLowHigh(l1, [ls.bracket EXCEPT ![ls.high_pos] = new])
       ELSE IF Wolfe(gtd_new)
       THEN [l1 EXCEPT !.done = TRUE, !.bracket[ls.low_pos] = new]
       ELSE IF crosses
       THEN [l1 EXCEPT !.bracket[ls.high_pos] = low,
                       !.bracket[ls.low_pos] = new,
                       !.asc = ~ls.asc]
       ELSE [l1 EXCEPT !.bracket[ls.low_pos] = new]

ZoomEvaluate ==
    /\ ls.pc = "zoom"
    /\ ~ls.done
    /\ ls.ls_iter < max_ls
    /\ \E f_new \in LossesNear(ls.bracket[ls.low_pos].f), g_new \in LsGrads :
       \E af \in ZoomArmijoFails(f_new) :
        /\ RLe(ls.floor, f_new)
        /\ ls' = ZoomStep(f_new, g_new, af)
    /\ LsFrame

\* lines 120 and 181-185
LsReturn ==
    /\ ls.pc = "zoom"
    /\ ls.done \/ ls.ls_iter >= max_ls
    /\ ls' \in Returned(ls)
    /\ LsFrame

LsRejected ==
    \/ ls.alpha_zero
    \/ ~ls.alpha_ok
    \/ GradOutOfRange(ls.flat_grad_t)
    \/ LossOutOfRange(ls.loss_t)

\* LSR1.step, lines 907-916
LsReject ==
    /\ ls.pc = "back"
    /\ LsRejected
    /\ ls' = [ls EXCEPT !.pc = "restart"]
    /\ LsFrame

\* LSR1.step, lines 917-927
LsCommit ==
    /\ ls.pc = "back"
    /\ ~LsRejected
    /\ ls' = [ls EXCEPT !.pc = "moved"]
    /\ LsFrame

NextLS ==
    \/ LsEnter
    \/ BracketArmijo
    \/ BracketWolfe
    \/ BracketRising
    \/ BracketExtend
    \/ BracketExhausted
    \/ ZoomNarrow
    \/ ZoomEvaluate
    \/ LsReturn
    \/ LsReject
    \/ LsCommit

SpecLS == InitLS /\ [][NextLS]_vars

\* C10: when an outer iteration commits the move the line search returned,
\* the loss at the new point is no greater than the loss at the point before
\* the iteration.
C10_NoIncrease == ls.pc = "moved" => RLe(ls.loss_t, ls.f)

\* the same for the iterations whose gtd is the directional derivative along
\* the delta_w handed to the line search, that is, whose delta_w was not negated
NoIncreaseUnlessNegated ==
    (ls.pc = "moved" /\ ls.gtd = RMul(ls.g, ls.d)) => RLe(ls.loss_t, ls.f)

\* ---------------------------------------------- trust-region feasibility
\* the model of the iteration is positive semidefinite: gamma + lamb >= 0
PsdModel == RLe(Zero, RAdd(loc.gamma, loc.lamb))

MaxSolverGrad == 4   \* the gradients are the non-zero halves up to MaxSolverGrad
newton_maxit == 5

SolverGrads == {Q(n, 2) : n \in ((0 - 2 * MaxSolverGrad)..(2 * MaxSolverGrad)) \ {0}}
SolverRadii == {Half, One, Two, <<3, 1>>}
SolverGammas == {Half, One, Two}
SolverLambs == {<<0 - 2, 1>>, <<0 - 1, 1>>, Zero, Half, One, Two}

\* x * k1 * k2 > b, evaluated without forming the product
GtTimes(x, k1, k2, b) == x[1] * b[2] > ((b[1] * x[2]) \div k2) \div k1

Value(x) == [kind |-> "value", p |-> x]
Raised == [kind |-> "raised", p |-> NoneR]

\* abs(a) against obs_tol = 1e-10, a in units of 1e-5
BelowTolA(a) == LtTimes(RAbs(a), 100000, 1, One)
AboveTolA(a) == GtTimes(RAbs(a), 100000, 1, One)
\* abs(t) against 1e-10
BelowTol(t) == LtTimes(RAbs(t), 100000, 100000, One)
AboveTol(t) == GtTimes(RAbs(t), 100000, 100000, One)

\* phi_phi_T, lines 334-361, for a and lam of one entry: the value of phi and
\* its derivative.  torch.sqrt of the number 0 that llpll2 still is when no
\* entry was added raises.
phi_phi_T(sigma, delta, a, lam) ==
    LET t == RAdd(lam, sigma)
        llpll == RAbs(RDiv(a, t))
    IN IF BelowTolA(a) \/ BelowTol(t)
       THEN IF AboveTolA(a) /\ BelowTol(t)
            THEN [kind |-> "value", phi |-> RNeg(RInv(delta)),
                  phi_T |-> RMul(<<100000, 1>>, <<100000, 1>>)]
            ELSE [kind |-> "raised", phi |-> NoneR, phi_T |-> NoneR]
       ELSE [kind |-> "value",
             phi |-> RSub(RInv(llpll), RInv(delta)),
             phi_T |-> RDiv(RDiv(RMul(a, a), RMul(t, RMul(t, t))),
                            RMul(llpll, RMul(llpll, llpll)))]

\* phi, lines 363-386, for a and lam of one entry
phi(sigma, delta, a, lam) ==
    LET pp == phi_phi_T(sigma, delta, a, lam)
    IN IF pp.kind = "raised" THEN Raised ELSE Value(pp.phi)

\* equation_p1, lines 388-404, with psi and M without columns: Zf is empty
\* and psi @ Zf is the zero vector
equation_p1(sigma_star, flat_grad) == RNeg(RDiv(flat_grad, sigma_star))

\* newton_method, lines 471-492; abs(phi) > 1e-15 is phi # 0 on the model's
\* exact numbers
RECURSIVE NewtonIter(_, _, _, _, _)
NewtonIter(s, k, delta, a, lam) ==
    LET pp == phi_phi_T(s, delta, a, lam)
    IN IF pp.kind = "raised" THEN Raised
       ELSE IF pp.phi # Zero /\ k < newton_maxit
       THEN NewtonIter(RSub(s, RDiv(pp.phi, pp.phi_T)), k + 1, delta, a, lam)
       ELSE Value(s)

newton_method_NoIteration(sigma, delta, a, lam) == Value(sigma)

newton_method(sigma, delta, a, lam) == NewtonIter(sigma, 0, delta, a, lam)

\* trust_solver_OBS, lines 494-530, with an empty history: lam_all = (gamma),
\* g_ll is empty and a = (norm(flat_grad)).  phi(-lam_min) has t = 0, so the
\* test of line 513 fails, or phi raises.
trust_solver_OBS_NoHistory(flat_grad, gamma, trust_radius) ==
    LET lam_all == IF AboveTol(gamma) THEN gamma ELSE Zero
        lam_min == lam_all
        gg == RMul(flat_grad, flat_grad)
        a == IF RLt(gg, One) THEN Zero ELSE RAbs(flat_grad)
        phi0 == phi(Zero, trust_radius, a, lam_all)
        phim == phi(RNeg(lam_min), trust_radius, a, lam_all)
        sigma_hat == RSub(RDiv(RAbs(a), trust_radius), lam_all)
        sigma_star ==
            IF RLt(Zero, lam_min)
            THEN newton_method(Zero, trust_radius, a, lam_all)
            ELSE IF RLt(RNeg(lam_min), sigma_hat)
            THEN newton_method(sigma_hat, trust_radius, a, lam_all)
            ELSE newton_method(RNeg(lam_min), trust_radius, a, lam_all)
    IN IF phi0.kind = "raised" THEN Raised
       ELSE IF RLe(Zero, phi0.p) /\ RLt(Zero, lam_min)
       THEN Value(equation_p1(gamma, flat_grad))
       ELSE IF RLe(lam_min, Zero) /\ phim.kind = "raised" THEN Raised
       ELSE IF sigma_star.kind = "raised" THEN Raised
       ELSE Value(equation_p1(RAdd(sigma_star.p, gamma), flat_grad))

InitSolvers ==
    /\ cfg = CHOOSE c \in ValidConfigs : TRUE
    /\ pc = "solver"
    /\ state = NoState
    /\ loc = NoLoc
    /\ params = 0
    /\ oracle = NoOracle
    /\ calls = 0
    /\ ret = NoRet
    /\ hist = <<>>
    /\ why = "none"
    /\ touched = FALSE
    /\ outer = 0
    /\ ls = NoLs
    /\ rc = NoRc
    /\ fn \in [mode : {"obs"}, flat_grad : SolverGrads, gamma : SolverGammas,
               lamb : {NoneR}, trust_radius : SolverRadii, done : {FALSE},
               kind : {"none"}, p : {NoneR}, q : {NoneR}]
          \cup [mode : {"pair"}, flat_grad : SolverGrads, gamma : {NoneR},
                lamb : SolverLambs, trust_radius : SolverRadii,
                done : {FALSE}, kind : {"none"}, p : {NoneR}, q : {NoneR}]

SolverFrame == UNCHANGED <<cfg, pc, state, loc, params, oracle, calls, ret,
                           hist, why, touched, outer, ls, rc>>

\* trust_solver_OBS(M, P, lamb_gamma, trust_radius, gamma, flat_grad, psi)
\* with an empty history
CallOBS ==
    /\ pc = "solver"
    /\ fn.mode = "obs" /\ ~fn.done
    /\ LET r == trust_solver_OBS_NoHistory(fn.flat_grad, fn.gamma,
                                           fn.trust_radius)
       IN fn' = [fn EXCEPT !.done = TRUE, !.kind = r.kind, !.p = r.p]
    /\ SolverFrame

\* trust_solver_cauchy and trust_solver_steihaug with the same arguments:
\* p is the Cauchy point, q the Steihaug step
CallCauchySteihaug ==
    /\ pc = "solver"
    /\ fn.mode = "pair" /\ ~fn.done
    /\ fn' = [fn EXCEPT
                !.done = TRUE, !.kind = "value",
                !.p = trust_solver_cauchy(fn.flat_grad, fn.lamb,
                                          fn.trust_radius),
                !.q = trust_solver_steihaug(fn.flat_grad, fn.lamb,
                                            fn.trust_radius)]
    /\ SolverFrame

NextSolvers == CallOBS \/ CallCauchySteihaug

SpecSolvers == InitSolvers /\ [][NextSolvers]_vars

\* -trust_radius * g / norm(g)
BoundaryStep(flat_grad, trust_radius) ==
    RNeg(RDiv(RMul(trust_radius, flat_grad), RAbs(flat_grad)))

FirstCurvature == RMul(fn.lamb, RMul(fn.flat_grad, fn.flat_grad))

\* C13: called with the same arguments and a model with g^T B g <= 0,
\* trust_solver_steihaug and trust_solver_cauchy return the same vector,
\* -trust_radius * g / norm(g).
C13_SteihaugIsCauchy ==
    (fn.mode = "pair" /\ fn.done /\ RLe(FirstCurvature, Zero)) =>
        /\ fn.p = fn.q
        /\ fn.q = BoundaryStep(fn.flat_grad, fn.trust_radius)

\* the two solvers called with a model of negative curvature along g
C13_Witness ==
    /\ fn.mode = "pair" /\ fn.done
    /\ RLt(FirstCurvature, Zero)
    /\ fn.p = BoundaryStep(fn.flat_grad, fn.trust_radius)

\* ------------------------------------ LSR1.step, lines 766-781 and 871-874
\* The choice of the initial step length of an outer iteration, for
\* gradients with a 1-norm around 1 (100000 in units of 1e-5): the branch
\* on the restart flag at the head of the iteration, then the test of the
\* flag at line 871.  Between the two the flag is only ever set to 1 right
\* before a break (lines 799-801, 835-837).
MaxStepGrad == 4   \* the gradients are the non-zero multiples of 0.5 up to MaxStepGrad / 2

StepGrads == {<<50000 * n, 1>> : n \in ((0 - MaxStepGrad)..MaxStepGrad) \ {0}}
StepRates == {Half, One, Two}

InitStepLength ==
    /\ cfg \in {[c EXCEPT !.lr = l] :
                  c \in {x \in ValidConfigs : x.line_search_fn = "strong_wolfe"},
                  l \in StepRates}
    /\ pc = "iter_head"
    /\ \E r \in {0, 1} : state = [NoState EXCEPT !.restart = r]
    /\ \E g \in StepGrads : loc = [NoLoc EXCEPT !.flat_grad = g, !.n_iter = 1]
    /\ params = 0
    /\ oracle = NoOracle
    /\ calls = 1
    /\ ret = NoRet
    /\ hist = <<>>
    /\ why = "none"
    /\ touched = TRUE
    /\ outer = 1
    /\ ls = NoLs
    /\ rc = NoRc
    /\ fn = NoFn

StepLengthFrame == UNCHANGED <<cfg, params, oracle, calls, ret, hist, why,
                               touched, outer, ls, rc, fn>>

\* lines 766-767 and 781: the restart branch resets the flag
EnterIteration ==
    /\ pc = "iter_head"
    /\ state' = IF state.restart = 1 THEN [state EXCEPT !.restart = 0]
                ELSE state
    /\ loc' = [loc EXCEPT !.was_restart = (state.restart = 1)]
    /\ pc' = "iter_step"
    /\ StepLengthFrame

\* lines 871-874, and alpha as passed at lines 901-902
ChooseInitialStep ==
    /\ pc = "iter_step"
    /\ loc' = [loc EXCEPT !.alpha = InitialStep(loc.flat_grad)]
    /\ pc' = "iter_search"
    /\ UNCHANGED state
    /\ StepLengthFrame

NextStepLength == EnterIteration \/ ChooseInitialStep

SpecStepLength == InitStepLength /\ [][NextStepLength]_vars

\* C14: the initial trial step passed to the line search is
\* min(1, 1 / norm1(g)) * lr on an iteration entered as a restart iteration
\* and lr on every other iteration.
C14_InitialStep ==
    pc = "iter_search" =>
        loc.alpha = IF loc.was_restart
                    THEN RMul(RMin(One, RDiv(<<100000, 1>>,
                                             RAbs(loc.flat_grad))), cfg.lr)
                    ELSE cfg.lr

\* what the code does: the initial trial step is lr on every iteration
InitialStepIsRate == pc = "iter_search" => loc.alpha = cfg.lr

\* ------------------------------------------- LSR1.step, lines 904-927
\* step()'s verdict on what _strong_wolfe returned, for results with
\* non-finite losses and gradients as well: a call of step() up to the
\* verdict of its first outer iteration, the result of the line search
\* given.
WideLosses == {Zero, One, NaN, <<1, 0>>, <<0 - 1, 0>>}
WideGrads == {Zero, Two, <<0 - 2, 1>>, <<1, 0>>}
WideStepLengths == {Zero, One, <<2000000, 1>>}

InitVerdict ==
    /\ cfg \in {c \in ValidConfigs : c.line_search_fn = "strong_wolfe"}
    /\ pc = "new"
    /\ state = NoState
    /\ loc = NoLoc
    /\ params = 0
    /\ oracle = NoOracle
    /\ calls = 0
    /\ ret = NoRet
    /\ hist = <<>>
    /\ why = "none"
    /\ touched = FALSE
    /\ outer = 0
    /\ ls = NoLs
    /\ rc = NoRc
    /\ fn \in [mode : {"result"},
               res : [loss_t : WideLosses, flat_grad_t : WideGrads,
                      alpha_t : WideStepLengths]]

NextVerdict ==
    \/ Construct
    \/ StepEnterLoop
    \/ LoopHead
    \/ RestartIter
    \/ BlendAndPrepare
    \/ LineSearchReject
    \/ LineSearchAccept

SpecVerdict == InitVerdict /\ [][NextVerdict]_vars

\* the returned step length or gradient norm is outside [1e-12, 1e6]
StepOrGradOutside(res) ==
    \/ StepLengthOutOfRange(res.alpha_t)
    \/ GradOutOfRange(res.flat_grad_t)

\* the returned loss is NaN, +inf or -inf, or above 1e6
LossNonFiniteOrLarge(res) ==
    \/ ~IsFinite(res.loss_t)
    \/ LossOutOfRange(res.loss_t)

\* the step is rejected: the flag is set, the loop is left, nothing is
\* offered, the radius, T and rho are kept and the point is not moved
Rejected ==
    /\ state'.restart = 1
    /\ pc' = "save"
    /\ loc' = loc
    /\ hist' = hist
    /\ params' = params

\* C15: a line-search result with a step length or a gradient norm outside
\* [1e-12, 1e6], or with a loss that is NaN, +inf, -inf or above 1e6, is
\* rejected, and the parameters stay at the point before the line search.
C15_Rejection ==
    [][(/\ pc = "advance" /\ fn.mode = "result"
        /\ StepOrGradOutside(fn.res) \/ LossNonFiniteOrLarge(fn.res))
          => Rejected]_vars

\* the same without the loss -inf
RejectionButMinusInf ==
    [][(/\ pc = "advance" /\ fn.mode = "result"
        /\ fn.res.loss_t # <<0 - 1, 0>>
        /\ StepOrGradOutside(fn.res) \/ LossNonFiniteOrLarge(fn.res))
          => Rejected]_vars

\* C16: the number of oracle evaluations _strong_wolfe makes and reports,
\* ls_func_evals, over the bracketing and the zoom phase together, is at
\* most max_ls.
C16_Budget == ls.pc # "off" => ls.ls_func_evals <= max_ls

\* what the code keeps: one evaluation before the first iteration and one
\* per iteration, at most max_ls iterations
EvaluationsAreIterationsPlusOne ==
    ls.pc \notin {"off", "call"} =>
        /\ ls.ls_func_evals = ls.ls_iter + 1
        /\ ls.ls_iter <= max_ls

\* _strong_wolfe returns before max_ls iterations only with the strong Wolfe
\* conditions met or from a bracket that a zoom step has narrowed
EarlyReturn ==
    [][(ls.pc \in {"bracket", "zoom"} /\ ls'.pc = "back"
        /\ ls.ls_iter < max_ls)
          => \/ ls.done
             \/ ls.pc = "bracket" /\ Wolfe(RMul(ls.g_new, ls.d))
             \/ ls.pc = "zoom" /\ ls.zoomed]_vars

\* ------------------------------------------- LSR1.step, lines 806-821
\* The step the configured solver returns when the matrix it is handed is B,
\* the matrix of the prediction of lines 839-846, whose only eigenvalue on
\* the one parameter is gamma + lamb.
StepOfPredictionModel ==
    IF cfg.trust_solver = "Cauchy_Point_Calculation"
    THEN trust_solver_cauchy(loc.flat_grad, RAdd(loc.gamma, loc.lamb),
                             loc.trust_radius)
    ELSE IF cfg.trust_solver = "Steihaug_cg"
    THEN trust_solver_steihaug(loc.flat_grad, RAdd(loc.gamma, loc.lamb),
                               loc.trust_radius)
    ELSE trust_solver_OBS(loc.flat_grad, loc.lamb, loc.gamma,
                          loc.trust_radius)

\* C17: on an iteration that builds a model, the matrix the trust-region
\* solver works with is the B = gamma*I + P diag(lamb) P^T of the prediction,
\* the gamma term included: the step it returns is the step of that B.
C17_OneModel ==
    (pc = "blend" /\ loc.built /\ cfg.trust_solver \in Solvers)
        => loc.delta_w = StepOfPredictionModel

\* the OBS call is handed lamb + gamma and gamma (line 819)
OneModelForOBS ==
    (pc = "blend" /\ loc.built /\ cfg.trust_solver = "OBS")
        => loc.delta_w = StepOfPredictionModel

\* ------------------------------------------- LSR1.step, lines 851-857, 901
\* C18: at the call of _strong_wolfe the directional derivative gtd handed
\* over is flat_grad . delta_w for the delta_w handed over, and is negative,
\* on the iterations that negated the direction too.
C18_SlopeOfDirection ==
    (pc = "advance" /\ cfg.line_search_fn = "strong_wolfe")
        => /\ loc.gtd = RMul(loc.flat_grad, loc.delta_w)
           /\ RLt(loc.gtd, Zero)

\* the direction itself is a descent direction on every iteration
DirectionIsDescent ==
    (pc = "advance" /\ cfg.line_search_fn = "strong_wolfe")
        => RLt(RMul(loc.flat_grad, loc.delta_w), Zero)

\* gtd is the slope of the direction before the negation of lines 856-857
SlopeBeforeNegation ==
    (pc = "advance" /\ cfg.line_search_fn = "strong_wolfe")
        => \/ loc.gtd = RMul(loc.flat_grad, loc.delta_w)
           \/ /\ RLt(Zero, loc.gtd)
              /\ loc.gtd = RNeg(RMul(loc.flat_grad, loc.delta_w))

\* ------------------------------------------- LSR1.step, lines 766-784
\* a configuration whose line_search_fn and trust_solver the code recognizes
RecognizedConfig ==
    /\ cfg.line_search_fn \in {"strong_wolfe", "None"}
    /\ cfg.trust_solver \in Solvers

\* C19: with a valid configuration, an outer iteration that starts with the
\* restart flag not set holds at least one pair in old_s and old_y when it
\* builds its model, and between calls a persisted restart = 0 comes with
\* persisted lists that exist and are not empty.
C19_HistoryAtHead ==
    RecognizedConfig =>
        /\ (pc = "dir" /\ state.restart # 1)
              => /\ loc.old_s # NoneL /\ Len(loc.old_s) >= 1
                 /\ loc.old_y # NoneL /\ Len(loc.old_y) >= 1
        /\ (pc = "idle" /\ state.restart = 0)
              => /\ state.old_s # NoneL /\ Len(state.old_s) >= 1
                 /\ state.old_y # NoneL /\ Len(state.old_y) >= 1

\* the first outer iteration of a later call builds its model from pairs that
\* an earlier call persisted with restart = 0
C19_Witness ==
    /\ RecognizedConfig
    /\ pc = "dir"
    /\ calls >= 2
    /\ loc.n_iter = 1
    /\ state.restart = 0
    /\ Len(loc.old_s) >= 1

\* ------------------------------------------- LSR1.step, lines 928-966
FixedStep == cfg.line_search_fn = "None"

\* C20: with the line search disabled, every step() call that enters the
\* loop ends with restart = 1 persisted: the final outer iteration moves
\* without evaluating, so its loss is the previous loss and ared = 0 is below
\* tolerance_change; hence the first outer iteration of every call is a
\* restart and no pair is carried from one call to the next.
C20_EndsInRestart ==
    FixedStep =>
        /\ (pc = "tail" /\ loc.n_iter = cfg.max_iter)
              => loc.prev_loss = loc.loss
        /\ pc = "save" => state.restart = 1
        /\ (pc = "idle" /\ ret.kind = "returned") => state.restart = 1
        /\ (pc = "dir" /\ loc.n_iter = 1) => state.restart = 1

\* a call ends in its final outer iteration, which was reached after an
\* evaluated one, moved without evaluating and stored its pair
C20_Witness ==
    /\ FixedStep
    /\ pc = "save"
    /\ why = "no_progress"
    /\ cfg.max_iter >= 2
    /\ loc.n_iter = cfg.max_iter
    /\ ~oracle.ev
    /\ Len(loc.old_s) >= 1
    /\ state.restart = 1
====
